---- MODULE Spec2Model ----
(***************************************************************************)
(* Waves backend (src/main.py): the proxy-aware search relay, the          *)
(* token sessions over the user collection and the AI-ask demo.            *)
(*   build_proxy_config          lines 72-84                               *)
(*   perform_duckduckgo_search   lines 87-125                              *)
(*   search (GET /api/search)    lines 128-137                             *)
(*   register, login             lines 160-190                             *)
(*   get_user_from_token, logout lines 193-203, 239-243                    *)
(*   ai_ask                      lines 252-267                             *)
(* Strings are modelled as short strings or as sequences of string tokens; *)
(* the Python None is the empty tuple where a value may be None or a       *)
(* one-element tuple holding the string.                                   *)
(***************************************************************************)
EXTENDS Integers, Sequences, FiniteSets, TLC

VARIABLES env, pc, caller, q, limit, max_results, use_proxy, proxies,
          attempts, resp, results, error, envelope, answer,
          users, issued, revoked, req, reply, conc

\* the user collection with its history, and the requests served on it
store == <<users, issued, revoked, req, reply>>

vars == <<env, pc, caller, q, limit, max_results, use_proxy, proxies,
          attempts, resp, results, error, envelope, answer, store, conc>>

(***************************************************************************)
(* Bounds of the model.                                                    *)
(***************************************************************************)
\* longest mixed document (sequence of top-level elements) the provider returns
MaxNodes == 2
\* longest mixed document handed to the extraction loop on its own
MaxExtractNodes == 4
\* most documents inserted into the user collection
MaxUsers == 2
\* most tokens generated by logins
MaxTokens == 2
\* longest document made of well-formed result nodes only
MaxRun == 21
\* the search endpoint is called with limit in -LimitBelow .. 20 + LimitAbove
LimitBelow == 2
LimitAbove == 2
\* perform_duckduckgo_search is called on its own with max_results in 0 .. MaxDirectN
MaxDirectN == 3

(***************************************************************************)
(* Program constants.                                                      *)
(***************************************************************************)
\* search(): min(20, max(1, limit))
LimitMax == 20
LimitMin == 1
\* HTTPException(status_code=502, ...)
BadGateway == 502

(***************************************************************************)
(* Python values.                                                          *)
(***************************************************************************)
None == <<>>
Some(s) == <<s>>
\* truthiness of an Optional[str]: None and "" are falsy
Truthy(v) == v # None /\ v[1] # ""
\* Python `a or b`
Or(a, b) == IF Truthy(a) THEN a ELSE b
\* str.lower() on the scheme strings of the model
Lower(s) == CASE s = "HTTPS" -> "https"
              [] s = "HTTP" -> "http"
              [] s = "Bearer" -> "bearer"
              [] s = "BEARER" -> "bearer"
              [] OTHER -> s

(***************************************************************************)
(* Configuration: os.getenv over the keys build_proxy_config reads.        *)
(***************************************************************************)
EnvKeys == {"PROXY_HOST", "WAVES_PROXY_HOST", "PROXY_PORT", "WAVES_PROXY_PORT",
            "PROXY_SCHEME", "PROXY_USERNAME", "WAVES_PROXY_USER",
            "PROXY_PASSWORD", "WAVES_PROXY_PASS"}

EnvValues(k) ==
    CASE k = "PROXY_HOST"       -> {None, Some(""), Some("10.0.0.1")}
      [] k = "WAVES_PROXY_HOST" -> {None, Some(""), Some("10.0.0.2")}
      [] k = "PROXY_PORT"       -> {None, Some(""), Some("3128")}
      [] k = "WAVES_PROXY_PORT" -> {None, Some(""), Some("3129")}
      [] k = "PROXY_SCHEME"     -> {None, Some(""), Some("http"), Some("HTTPS")}
      [] k = "PROXY_USERNAME"   -> {None, Some(""), Some("alice")}
      [] k = "WAVES_PROXY_USER" -> {None, Some(""), Some("bob")}
      [] k = "PROXY_PASSWORD"   -> {None, Some(""), Some("pw1")}
      [] k = "WAVES_PROXY_PASS" -> {None, Some(""), Some("pw2")}

\* every configuration state over the values above
EnvAll == [PROXY_HOST : EnvValues("PROXY_HOST"),
           WAVES_PROXY_HOST : EnvValues("WAVES_PROXY_HOST"),
           PROXY_PORT : EnvValues("PROXY_PORT"),
           WAVES_PROXY_PORT : EnvValues("WAVES_PROXY_PORT"),
           PROXY_SCHEME : EnvValues("PROXY_SCHEME"),
           PROXY_USERNAME : EnvValues("PROXY_USERNAME"),
           WAVES_PROXY_USER : EnvValues("WAVES_PROXY_USER"),
           PROXY_PASSWORD : EnvValues("PROXY_PASSWORD"),
           WAVES_PROXY_PASS : EnvValues("WAVES_PROXY_PASS")]

\* the configurations the request model runs under: nothing set, the primary
\* host key set, or the primary host, user name and password keys set
EnvSmall == {e \in EnvAll :
               /\ \A k \in EnvKeys \ {"PROXY_HOST", "PROXY_USERNAME", "PROXY_PASSWORD"} :
                     e[k] = None
               /\ \A k \in {"PROXY_HOST", "PROXY_USERNAME", "PROXY_PASSWORD"} :
                     e[k] # Some("")
               /\ e["PROXY_HOST"] = None => e["PROXY_USERNAME"] = None
               /\ (e["PROXY_USERNAME"] = None) = (e["PROXY_PASSWORD"] = None)}

getenv(e, k) == e[k]

\* ProxyHost without the hard-coded default
ProxyHostNoDefault(e) == Or(getenv(e, "PROXY_HOST"), getenv(e, "WAVES_PROXY_HOST"))

\* the resolved settings of build_proxy_config (lines 73-77)
ProxyHost(e) == Or(Or(getenv(e, "PROXY_HOST"), getenv(e, "WAVES_PROXY_HOST")),
                   Some("93.127.130.22"))
ProxyPort(e) == Or(Or(getenv(e, "PROXY_PORT"), getenv(e, "WAVES_PROXY_PORT")),
                   Some("8080"))
ProxyScheme(e) == Lower(Or(getenv(e, "PROXY_SCHEME"), Some("http"))[1])
ProxyUsername(e) == Or(getenv(e, "PROXY_USERNAME"), getenv(e, "WAVES_PROXY_USER"))
ProxyPassword(e) == Or(getenv(e, "PROXY_PASSWORD"), getenv(e, "WAVES_PROXY_PASS"))

\* ProxyAuth with the test on the user name alone
ProxyAuthUserOnly(username, password) ==
    IF Truthy(username)
    THEN <<username[1], ":", IF password = None THEN "None" ELSE password[1], "@">>
    ELSE <<>>

\* auth = f"{username}:{password}@" if username and password else ""
ProxyAuth(username, password) ==
    IF Truthy(username) /\ Truthy(password)
    THEN <<username[1], ":", password[1], "@">>
    ELSE <<>>

\* the proxies mapping, or None; a URL is the sequence of the pieces the
\* f-string concatenates
build_proxy_config(e) ==
    LET host == ProxyHost(e)
        port == ProxyPort(e)
        scheme == ProxyScheme(e)
        username == ProxyUsername(e)
        password == ProxyPassword(e)
    IN  IF ~Truthy(host) \/ ~Truthy(port)
        THEN None
        ELSE LET proxy_url == <<scheme, "://">> \o ProxyAuth(username, password)
                                \o <<host[1], ":", port[1]>>
             IN  Some([http |-> proxy_url, https |-> proxy_url])

(***************************************************************************)
(* The provider's markup.  A document is the sequence of its top-level     *)
(* elements in document order.  An element has a class, an optional        *)
(* a.result__a anchor (with an optional href and its stripped text) and an *)
(* optional .result__snippet (its text).                                   *)
(***************************************************************************)
Anchor(href, text) == Some([href |-> href, text |-> text])
Element(cls, a, snippet) == [cls |-> cls, a |-> a, snippet |-> snippet]

GoodA == Element("result__body", Anchor(Some("https://a.example"), "A"), Some("about A"))
GoodB == Element("result__body", Anchor(Some("https://b.example"), "B"), None)
NoAnchor == Element("result__body", None, Some("orphan"))
NoHref == Element("result__body", Anchor(None, "C"), Some("about C"))
EmptyHref == Element("result__body", Anchor(Some(""), "D"), None)
Other == Element("nav", Anchor(Some("https://n.example"), "N"), None)
\* a result whose anchor has a link target and no text, and no snippet
GoodBlank == Element("result__body", Anchor(Some("https://i.example"), ""), None)

Elements == {GoodA, GoodB, GoodBlank, NoAnchor, NoHref, EmptyHref, Other}

\* k well-formed result nodes, alternating
Run(k) == [i \in 1..k |-> IF i % 2 = 1 THEN GoodA ELSE GoodB]

MixedDocs(len) == UNION {[1..n -> Elements] : n \in 0..len}

Docs == MixedDocs(MaxNodes) \cup {Run(k) : k \in LimitMax..MaxRun}

\* bodies that come with a status other than 200
ErrorDocs == {<<>>, <<GoodA>>}

\* soup.select(".result__body"): the matching elements, in document order
SelectResultBody(doc) == SelectSeq(doc, LAMBDA el : el.cls = "result__body")

\* the loop of lines 110-124, from candidate i on, with `acc` collected so far
RECURSIVE ExtractLoop(_, _, _, _)
ExtractLoop(nodes, i, acc, n) ==
    IF i > Len(nodes) THEN acc
    ELSE LET res == nodes[i]
             a == res.a
         IN  IF a = None \/ ~Truthy(a[1].href)
             THEN ExtractLoop(nodes, i + 1, acc, n)
             ELSE LET rec == [title |-> a[1].text,
                              url |-> a[1].href[1],
                              snippet |-> IF res.snippet # None THEN res.snippet[1] ELSE ""]
                      acc2 == Append(acc, rec)
                  IN  IF Len(acc2) >= n THEN acc2
                      ELSE ExtractLoop(nodes, i + 1, acc2, n)

\* Extract with the candidates cut to the first n before the loop
ExtractSliced(doc, n) ==
    LET nodes == SelectResultBody(doc)
    IN  ExtractLoop(SubSeq(nodes, 1, IF n <= Len(nodes) THEN n ELSE Len(nodes)),
                    1, <<>>, n)

\* lines 108-125: parse the body and collect the records
Extract(doc, n) == ExtractLoop(SelectResultBody(doc), 1, <<>>, n)

(***************************************************************************)
(* The outbound request: requests.get(...) followed by raise_for_status(). *)
(* requests.get either raises or returns a response; the set of outcomes   *)
(* is the provider's (or the proxy's) choice.                              *)
(***************************************************************************)
Response(status_code, text) == [status_code |-> status_code, text |-> text]

Responses == {Response(200, d) : d \in Docs}
               \cup {Response(st, d) : st \in {304, 500}, d \in ErrorDocs}

\* what requests.get raises when routed through `p` (None: no proxy)
TransportExceptions(p) ==
    IF p # None THEN {"ProxyError", "ConnectTimeout"}
    ELSE {"ConnectionError", "ConnectTimeout"}

\* Response.raise_for_status(): HTTPError for 4xx and 5xx, nothing otherwise
raise_for_status(r) ==
    IF 400 <= r.status_code /\ r.status_code < 600 THEN Some("HTTPError") ELSE None

\* the outcomes of one attempt: the exception caught (or None) and the
\* response bound to resp (or None when requests.get itself raised)
Outcomes(p) ==
    {[exc |-> Some(x), response |-> None] : x \in TransportExceptions(p)}
      \cup {[exc |-> raise_for_status(r), response |-> Some(r)] : r \in Responses}

\* str(e) of the exception of an attempt
ExcStr(o) ==
    CASE o.exc = Some("HTTPError") -> "500 Server Error"
      [] o.exc = Some("ProxyError") -> "Cannot connect to proxy"
      [] o.exc = Some("ConnectionError") -> "Connection refused"
      [] o.exc = Some("ConnectTimeout") -> "Connect timed out"

HTTPException(status_code, detail) == Some([status_code |-> status_code, detail |-> detail])

\* line 106
DetailNoProxy == <<"Search request failed">>
\* DetailFallback built from the exception of the first request
DetailFromFirst(o2) == <<"Search request failed: ", ExcStr(attempts[1])>>

\* line 104: f"Search request failed: {str(e2)}"
DetailFallback(o2) == <<"Search request failed: ", ExcStr(o2)>>

\* one entry of the log of outbound requests: the proxies argument and the outcome
Attempt(p, o) == [proxies |-> p, exc |-> o.exc, response |-> o.response]

(***************************************************************************)
(* The state machine of one request.                                       *)
(***************************************************************************)
Queries == {"weather"}
Limits == (0 - LimitBelow) .. (LimitMax + LimitAbove)
DirectN == 0 .. MaxDirectN

\* the processes that serve requests at the same time
Procs == {"p1", "p2"}

\* no user, no request on the user collection
IdleReq == [op |-> "none", pc |-> "idle", username |-> "", password |-> "",
            user |-> None, token |-> None]
\* the last response sent: by which process, to which operation, its status,
\* the token in it
NoReply == [proc |-> "", op |-> "none", status |-> 0, token |-> None]
StoreIdle ==
    /\ users = <<>> /\ issued = <<>> /\ revoked = {}
    /\ req = [p \in Procs |-> IdleReq]
    /\ reply = NoReply

\* no search in any process
IdleSearch == [pc |-> "idle", q |-> "", limit |-> 0, max_results |-> 0,
               proxies |-> None, attempts |-> <<>>, resp |-> None,
               results |-> <<>>, error |-> None, envelope |-> None]
ConcIdle == conc = [p \in Procs |-> IdleSearch]

Idle ==
    /\ pc = "idle"
    /\ caller = "none" /\ q = "" /\ limit = 0 /\ max_results = 0
    /\ use_proxy = FALSE /\ proxies = None /\ attempts = <<>>
    /\ resp = None /\ results = <<>> /\ error = None /\ envelope = None
    /\ answer = None

Init == env \in EnvSmall /\ Idle /\ StoreIdle /\ ConcIdle

\* Clamp without the lower bound
ClampUpperOnly(l) == IF l <= LimitMax THEN l ELSE LimitMax

\* search(), line 130: max_results=min(20, max(1, limit))
Max(a, b) == IF a >= b THEN a ELSE b
Min(a, b) == IF a <= b THEN a ELSE b
Clamp(l) == Min(LimitMax, Max(LimitMin, l))

\* lines 87-93: the entry of perform_duckduckgo_search
Enter(who, query, n, up) ==
    /\ caller' = who
    /\ q' = query
    /\ max_results' = n
    /\ use_proxy' = up
    /\ proxies' = IF up THEN build_proxy_config(env) ELSE None
    /\ pc' = "request"
    /\ UNCHANGED <<store, conc, answer, env, attempts, resp, results, error, envelope>>

\* GET /api/search?q=..&limit=..  (lines 128-130)
CallSearch ==
    /\ pc = "idle"
    /\ \E query \in Queries, l \in Limits :
         /\ limit' = l
         /\ Enter("search", query, Clamp(l), TRUE)

\* perform_duckduckgo_search called on its own, with any arguments
CallPerform ==
    /\ pc = "idle"
    /\ \E query \in Queries, n \in DirectN, up \in BOOLEAN :
         /\ limit' = limit
         /\ Enter("perform", query, n, up)

\* str.strip() on the prompts of the model
Strip(str) == CASE str = " weather " -> "weather"
                [] str = "   " -> ""
                [] OTHER -> str
Prompts == {"weather", " weather ", "   ", ""}

\* POST /api/ai/ask with a valid token (lines 252-258)
CallAiAsk ==
    /\ pc = "idle"
    /\ \E prompt \in Prompts :
         IF Strip(prompt) = ""
         THEN /\ caller' = "ai_ask"
              /\ error' = HTTPException(400, <<"Empty prompt">>)
              /\ pc' = "raised"
              /\ UNCHANGED <<store, conc, answer, env, q, limit, max_results, use_proxy,
                             proxies, attempts, resp, results, envelope>>
         ELSE /\ limit' = limit
              /\ Enter("ai_ask", Strip(prompt), 1, TRUE)

\* FirstRequest falling back whatever use_proxy is
FirstRequestAlwaysFallback ==
    /\ pc = "request"
    /\ \E o \in Outcomes(proxies) :
         /\ attempts' = Append(attempts, Attempt(proxies, o))
         /\ resp' = IF o.response # None THEN o.response ELSE resp
         /\ pc' = IF o.exc = None THEN "parse" ELSE "fallback"
         /\ error' = error
    /\ UNCHANGED <<store, conc, answer, env, caller, q, limit, max_results, use_proxy, proxies,
                   results, envelope>>

\* lines 95-99 and 105-106: the first request, through `proxies`
FirstRequest ==
    /\ pc = "request"
    /\ \E o \in Outcomes(proxies) :
         /\ attempts' = Append(attempts, Attempt(proxies, o))
         /\ resp' = IF o.response # None THEN o.response ELSE resp
         /\ IF o.exc = None
            THEN pc' = "parse" /\ error' = error
            ELSE IF use_proxy
                 THEN pc' = "fallback" /\ error' = error
                 ELSE /\ pc' = "raised"
                      /\ error' = HTTPException(BadGateway, DetailNoProxy)
    /\ UNCHANGED <<store, conc, answer, env, caller, q, limit, max_results, use_proxy, proxies,
                   results, envelope>>

\* FallbackRequest retrying again when the direct request fails
FallbackRequestRetrying ==
    /\ pc = "fallback"
    /\ \E o \in Outcomes(None) :
         /\ attempts' = Append(attempts, Attempt(None, o))
         /\ resp' = IF o.response # None THEN o.response ELSE resp
         /\ pc' = IF o.exc = None THEN "parse" ELSE "fallback"
         /\ error' = error
    /\ UNCHANGED <<store, conc, answer, env, caller, q, limit, max_results, use_proxy, proxies,
                   results, envelope>>

\* lines 100-104: the second request, without proxies
FallbackRequest ==
    /\ pc = "fallback"
    /\ \E o \in Outcomes(None) :
         /\ attempts' = Append(attempts, Attempt(None, o))
         /\ resp' = IF o.response # None THEN o.response ELSE resp
         /\ IF o.exc = None
            THEN pc' = "parse" /\ error' = error
            ELSE /\ pc' = "raised"
                 /\ error' = HTTPException(BadGateway, DetailFallback(o))
    /\ UNCHANGED <<store, conc, answer, env, caller, q, limit, max_results, use_proxy, proxies,
                   results, envelope>>

\* ParseResults reading the first response received instead of the last
ParseResultsFirstResponse ==
    /\ pc = "parse"
    /\ results' = Extract(IF attempts[1].response # None
                          THEN attempts[1].response[1].text
                          ELSE resp[1].text, max_results)
    /\ pc' = CASE caller = "search" -> "envelope"
               [] caller = "ai_ask" -> "answer"
               [] OTHER -> "returned"
    /\ UNCHANGED <<store, conc, answer, env, caller, q, limit, max_results, use_proxy, proxies,
                   attempts, resp, error, envelope>>

\* lines 108-125: parse resp.text and return the records
ParseResults ==
    /\ pc = "parse"
    /\ results' = Extract(resp[1].text, max_results)
    /\ pc' = CASE caller = "search" -> "envelope"
               [] caller = "ai_ask" -> "answer"
               [] OTHER -> "returned"
    /\ UNCHANGED <<store, conc, answer, env, caller, q, limit, max_results, use_proxy, proxies,
                   attempts, resp, error, envelope>>

\* Envelope reporting the route the fetch ended on as proxy
EnvelopeProxyOfRoute(items, query, e) ==
    Some([engine |-> "Waves",
          proxy |-> attempts[Len(attempts)].proxies,
          query |-> query,
          count |-> Len(items),
          results |-> items])

\* Envelope reporting the requested number of results as count
EnvelopeCountsLimit(items, query, e) ==
    Some([engine |-> "Waves",
          proxy |-> build_proxy_config(e),
          query |-> query,
          count |-> max_results,
          results |-> items])

\* lines 131-137: the envelope of search()
Envelope(items, query, e) ==
    Some([engine |-> "Waves",
          proxy |-> build_proxy_config(e),
          query |-> query,
          count |-> Len(items),
          results |-> items])

\* SearchReturn answering 404 when nothing was extracted
SearchReturnNotFoundWhenEmpty ==
    /\ pc = "envelope"
    /\ IF results = <<>>
       THEN /\ error' = HTTPException(404, <<"No results">>)
            /\ envelope' = envelope
            /\ pc' = "raised"
       ELSE /\ envelope' = Envelope(results, q, env)
            /\ error' = error
            /\ pc' = "returned"
    /\ UNCHANGED <<store, conc, answer, env, caller, q, limit, max_results, use_proxy,
                   proxies, attempts, resp, results>>

SearchReturn ==
    /\ pc = "envelope"
    /\ envelope' = Envelope(results, q, env)
    /\ pc' = "returned"
    /\ UNCHANGED <<store, conc, answer, env, caller, q, limit, max_results, use_proxy, proxies,
                   attempts, resp, results, error>>

\* Python `a or b` on strings
StrOr(a, b) == IF a # "" THEN a ELSE b

\* AnswerOf trying the title before the snippet
AnswerOfTitleFirst(top) == StrOr(StrOr(top.title, top.snippet), "I found a reference.")

\* line 262: top.get("snippet") or top.get("title") or "I found a reference."
AnswerOf(top) == StrOr(StrOr(top.snippet, top.title), "I found a reference.")

\* lines 259-267: the answer of ai_ask
AiAnswer ==
    /\ pc = "answer"
    /\ answer' = IF results = <<>>
                 THEN Some([answer |-> "I couldn't find anything relevant right now."])
                 ELSE LET top == results[1]
                      IN  Some([answer |-> AnswerOf(top),
                                source |-> top.url,
                                title |-> top.title])
    /\ pc' = "returned"
    /\ UNCHANGED <<store, conc, env, caller, q, limit, max_results, use_proxy, proxies,
                   attempts, resp, results, error, envelope>>

Next ==
    \/ CallSearch
    \/ CallPerform
    \/ CallAiAsk
    \/ AiAnswer
    \/ FirstRequest
    \/ FallbackRequest
    \/ ParseResults
    \/ SearchReturn

Spec == Init /\ [][Next]_vars

(***************************************************************************)
(* build_proxy_config over every configuration state.                      *)
(***************************************************************************)
InitConfig == env \in EnvAll /\ Idle /\ StoreIdle /\ ConcIdle

ResolveProxy ==
    /\ pc = "idle"
    /\ proxies' = build_proxy_config(env)
    /\ pc' = "resolved"
    /\ UNCHANGED <<store, conc, answer, env, caller, q, limit, max_results, use_proxy,
                   attempts, resp, results, error, envelope>>

NextConfig == ResolveProxy

SpecConfig == InitConfig /\ [][NextConfig]_vars

(***************************************************************************)
(* The extraction loop over longer documents: the state after a direct     *)
(* request of perform_duckduckgo_search(q, n, use_proxy=False) succeeded.  *)
(***************************************************************************)
InitExtract ==
    /\ env \in {e \in EnvSmall : e["PROXY_HOST"] = None}
    /\ pc = "parse"
    /\ caller = "perform" /\ q \in Queries /\ limit = 0
    /\ max_results \in DirectN
    /\ use_proxy = FALSE /\ proxies = None
    /\ \E d \in MixedDocs(MaxExtractNodes) :
         /\ resp = Some(Response(200, d))
         /\ attempts = <<Attempt(None, [exc |-> None, response |-> resp])>>
    /\ results = <<>> /\ error = None /\ envelope = None
    /\ answer = None /\ StoreIdle /\ ConcIdle

NextExtract == ParseResults

SpecExtract == InitExtract /\ [][NextExtract]_vars

(***************************************************************************)
(* The user collection db["user"] and the handlers on it.  The collection  *)
(* is the sequence of its documents in insertion order; the _id of a       *)
(* document is its position.  A sync handler runs in a worker thread, so   *)
(* the steps of two requests interleave between their calls to the store.  *)
(***************************************************************************)
Usernames == {"ann", "bob"}
Passwords == {"pw1", "pw2"}
\* the register payloads: each user name comes with its own password
Registrations == {<<"ann", "pw1">>, <<"bob", "pw2">>}

\* pwd_context.hash / pwd_context.verify (bcrypt): a digest of the password
hash_password(password) == <<"bcrypt", password>>
verify_password(password, hashed) == hashed = hash_password(password)

\* generate_token(): uuid4().hex, a value never generated before
generate_token == <<ToString(Len(issued) + 1)>>

\* users.find_one(filter): the first document among the matching
\* positions, or None
FirstOf(coll, matching) ==
    IF matching = {} THEN None
    ELSE Some(coll[CHOOSE i \in matching : \A j \in matching : i <= j])

\* find_one({"username": name})
find_one_username(coll, name) ==
    FirstOf(coll, {i \in 1..Len(coll) : coll[i].username = name})

\* find_one({"tokens": token}): the array holds the value
find_one_token(coll, token) ==
    FirstOf(coll, {i \in 1..Len(coll) :
                     \E k \in 1..Len(coll[i].tokens) : coll[i].tokens[k] = token})

\* users.insert_one(doc): the document is appended and gets its _id
insert_one(coll, doc) == Append(coll, [doc EXCEPT !._id = Len(coll) + 1])

\* users.update_one({"_id": id}, {"$push": {"tokens": token}})
update_one_push(coll, id, token) ==
    [coll EXCEPT ![id].tokens = Append(@, token)]

\* users.update_one({"_id": id}, {"$pull": {"tokens": token}})
update_one_pull(coll, id, token) ==
    LET Keep(t) == t # token
    IN  [coll EXCEPT ![id].tokens = SelectSeq(@, Keep)]

\* NewUser created with a session token already in its list
NewUserWithToken(username, password) ==
    [_id |-> 0,
     username |-> username,
     password_hash |-> hash_password(password),
     display_name |-> username,
     wallpaper |-> None,
     settings |-> <<>>,
     tokens |-> <<<<"1">>>>,
     is_active |-> TRUE]

\* the document of register (lines 167-175); display_name is not sent
NewUser(username, password) ==
    [_id |-> 0,
     username |-> username,
     password_hash |-> hash_password(password),
     display_name |-> username,
     wallpaper |-> None,
     settings |-> <<>>,
     tokens |-> <<>>,
     is_active |-> TRUE]

search_state == <<env, pc, caller, q, limit, max_results, use_proxy, proxies,
                  attempts, resp, results, error, envelope, answer>>

\* requests of process p that are between two calls to the store
Pending(kind) == Cardinality({p \in Procs : req[p].pc = kind})

\* process p answers operation `op` with `status` (and the token of a login)
Reply(p, op, status, token) ==
    [proc |-> p, op |-> op, status |-> status, token |-> token]

\* register, lines 162-166: the look-up of the user name
RegisterFind(p) ==
    /\ req[p].pc = "idle"
    /\ \E payload \in Registrations :
         LET name == payload[1]
             r == [IdleReq EXCEPT !.op = "register", !.username = name,
                                  !.password = payload[2]]
         IN  IF find_one_username(users, name) # None
             THEN /\ reply' = Reply(p, "register", 400, None)
                  /\ req' = req
             ELSE /\ Len(users) + Pending("insert") < MaxUsers
                  /\ req' = [req EXCEPT ![p] = [r EXCEPT !.pc = "insert"]]
                  /\ reply' = reply
    /\ UNCHANGED <<users, issued, revoked>>
    /\ UNCHANGED <<search_state, conc>>

\* register, lines 167-177: the insertion
RegisterInsert(p) ==
    /\ req[p].pc = "insert"
    /\ users' = insert_one(users, NewUser(req[p].username, req[p].password))
    /\ req' = [req EXCEPT ![p] = IdleReq]
    /\ reply' = Reply(p, "register", 200, None)
    /\ UNCHANGED <<issued, revoked>>
    /\ UNCHANGED <<search_state, conc>>

\* LoginFind without the password check
LoginFindNoVerify(p) ==
    /\ req[p].pc = "idle"
    /\ \E name \in Usernames, pw \in Passwords :
         LET r == [IdleReq EXCEPT !.op = "login", !.username = name, !.password = pw]
             user == find_one_username(users, name)
         IN  IF user = None
             THEN /\ reply' = Reply(p, "login", 401, None)
                  /\ req' = req
             ELSE /\ Len(issued) + Pending("push") < MaxTokens
                  /\ req' = [req EXCEPT ![p] = [r EXCEPT !.pc = "push", !.user = user]]
                  /\ reply' = reply
    /\ UNCHANGED <<users, issued, revoked>>
    /\ UNCHANGED <<search_state, conc>>

\* login, lines 182-187: the look-up and the password check
LoginFind(p) ==
    /\ req[p].pc = "idle"
    /\ \E name \in Usernames, pw \in Passwords :
         LET r == [IdleReq EXCEPT !.op = "login", !.username = name, !.password = pw]
             user == find_one_username(users, name)
         IN  IF user = None \/ ~verify_password(pw, user[1].password_hash)
             THEN /\ reply' = Reply(p, "login", 401, None)
                  /\ req' = req
             ELSE /\ Len(issued) + Pending("push") < MaxTokens
                  /\ req' = [req EXCEPT ![p] = [r EXCEPT !.pc = "push", !.user = user]]
                  /\ reply' = reply
    /\ UNCHANGED <<users, issued, revoked>>
    /\ UNCHANGED <<search_state, conc>>

\* login, lines 188-190: the token is generated and pushed
LoginPush(p) ==
    /\ req[p].pc = "push"
    /\ LET token == generate_token
       IN  /\ users' = update_one_push(users, req[p].user[1]._id, token)
           /\ issued' = Append(issued, [token |-> token, user |-> req[p].user[1]._id])
           /\ reply' = Reply(p, "login", 200, token)
    /\ req' = [req EXCEPT ![p] = IdleReq]
    /\ UNCHANGED revoked
    /\ UNCHANGED <<search_state, conc>>

\* the Authorization header: None, or the string as the sequence of its
\* words and blanks
Headers ==
    {None, <<"Bearer">>, <<"bearer", " ", " ", "1", " ">>, <<"Token", " ", "1">>,
     <<"Bearer", " ", "feed">>}
      \cup UNION {{<<"Bearer", " ", t>>, <<t>>} : t \in {ToString(k) : k \in 1..MaxTokens}}

\* str.strip(): the blanks at both ends are dropped
RECURSIVE StripBlanks(_)
StripBlanks(h) ==
    IF h = <<>> THEN h
    ELSE IF Head(h) = " " THEN StripBlanks(Tail(h))
         ELSE IF h[Len(h)] = " " THEN StripBlanks(SubSeq(h, 1, Len(h) - 1))
              ELSE h

\* lines 198-199: partition(" ") and the choice of the token
TokenOfHeader(authorization) ==
    LET blanks == {i \in 1..Len(authorization) : authorization[i] = " "}
        cut == IF blanks = {} THEN Len(authorization) + 1
               ELSE CHOOSE i \in blanks : \A j \in blanks : i <= j
        scheme == SubSeq(authorization, 1, cut - 1)
        token == SubSeq(authorization, cut + 1, Len(authorization))
    IN  IF Len(scheme) = 1 /\ Lower(scheme[1]) = "bearer"
        THEN StripBlanks(token)
        ELSE StripBlanks(authorization)

\* logout: get_user_from_token (lines 193-203, 240-241) answers 401, or
\* gives the document found and the token
LogoutAuth(p) ==
    /\ req[p].pc = "idle"
    /\ \E authorization \in Headers :
         LET r == [IdleReq EXCEPT !.op = "logout"]
             token == TokenOfHeader(authorization)
             user == find_one_token(users, token)
         IN  IF authorization = None \/ user = None
             THEN /\ reply' = Reply(p, "logout", 401, None)
                  /\ req' = req
             ELSE /\ req' = [req EXCEPT ![p] = [r EXCEPT !.pc = "pull", !.user = user,
                                                         !.token = token]]
                  /\ reply' = reply
    /\ UNCHANGED <<users, issued, revoked>>
    /\ UNCHANGED <<search_state, conc>>

\* LogoutPull writing back the list read at authentication without the token
LogoutPullSnapshot(p) ==
    /\ req[p].pc = "pull"
    /\ LET Keep(t) == t # req[p].token
       IN  users' = [users EXCEPT ![req[p].user[1]._id].tokens =
                                     SelectSeq(req[p].user[1].tokens, Keep)]
    /\ revoked' = revoked \cup {req[p].token}
    /\ req' = [req EXCEPT ![p] = IdleReq]
    /\ reply' = Reply(p, "logout", 200, None)
    /\ UNCHANGED issued
    /\ UNCHANGED <<search_state, conc>>

\* logout, lines 242-243: the token is pulled
LogoutPull(p) ==
    /\ req[p].pc = "pull"
    /\ users' = update_one_pull(users, req[p].user[1]._id, req[p].token)
    /\ revoked' = revoked \cup {req[p].token}
    /\ req' = [req EXCEPT ![p] = IdleReq]
    /\ reply' = Reply(p, "logout", 200, None)
    /\ UNCHANGED issued
    /\ UNCHANGED <<search_state, conc>>

InitAuth == env \in {e \in EnvSmall : e["PROXY_HOST"] = None}
              /\ Idle /\ StoreIdle /\ ConcIdle

NextAuth ==
    \/ \E p \in Procs : RegisterFind(p)
    \/ \E p \in Procs : RegisterInsert(p)
    \/ \E p \in Procs : LoginFind(p)
    \/ \E p \in Procs : LoginPush(p)
    \/ \E p \in Procs : LogoutAuth(p)
    \/ \E p \in Procs : LogoutPull(p)

SpecAuth == InitAuth /\ [][NextAuth]_vars

(***************************************************************************)
(* Searches served at the same time.  GET /api/search is a sync handler:   *)
(* each request runs search() in its own worker thread, with its own       *)
(* locals (conc[p]); the environment and the user collection are the only  *)
(* state the threads share.                                                *)
(***************************************************************************)
ConcQueries == {"weather", "news"}
ConcLimits == {1, 2}
ConcBodies == {<<GoodA, GoodB>>, <<NoHref, GoodB>>}

\* the outcomes of one attempt of a concurrent search
ConcOutcomes(p) ==
    {o \in Outcomes(p) :
       IF o.response = None THEN o.exc = Some("ConnectTimeout")
       ELSE \/ o.response[1].status_code = 200 /\ o.response[1].text \in ConcBodies
            \/ o.response[1] = Response(500, <<>>)}

\* the store after one register and one login
StoreInUse ==
    /\ users = update_one_push(insert_one(<<>>, NewUser("ann", "pw1")), 1, <<"1">>)
    /\ issued = <<[token |-> <<"1">>, user |-> 1]>>
    /\ revoked = {}
    /\ req = [p \in Procs |-> IdleReq]
    /\ reply = NoReply

InitConcurrent == env \in EnvSmall /\ Idle /\ StoreInUse /\ ConcIdle

\* lines 128-130 and 87-93: search() enters perform_duckduckgo_search
ConcCallSearch(p) ==
    /\ conc[p].pc = "idle"
    /\ \E query \in ConcQueries, l \in ConcLimits :
         conc' = [conc EXCEPT ![p] = [IdleSearch EXCEPT !.pc = "request",
                                                        !.q = query,
                                                        !.limit = l,
                                                        !.max_results = Clamp(l),
                                                        !.proxies = build_proxy_config(env)]]
    /\ UNCHANGED <<search_state, store>>

\* lines 95-99: the first request, through the proxy (use_proxy is True)
ConcFirstRequest(p) ==
    /\ conc[p].pc = "request"
    /\ \E o \in ConcOutcomes(conc[p].proxies) :
         conc' = [conc EXCEPT ![p].attempts = Append(@, Attempt(conc[p].proxies, o)),
                              ![p].resp = IF o.response # None THEN o.response ELSE @,
                              ![p].pc = IF o.exc = None THEN "parse" ELSE "fallback"]
    /\ UNCHANGED <<search_state, store>>

\* lines 100-104: the second request, without proxies
ConcFallbackRequest(p) ==
    /\ conc[p].pc = "fallback"
    /\ \E o \in ConcOutcomes(None) :
         conc' = [conc EXCEPT ![p].attempts = Append(@, Attempt(None, o)),
                              ![p].resp = IF o.response # None THEN o.response ELSE @,
                              ![p].pc = IF o.exc = None THEN "parse" ELSE "raised",
                              ![p].error = IF o.exc = None THEN @
                                           ELSE HTTPException(BadGateway, DetailFallback(o))]
    /\ UNCHANGED <<search_state, store>>

\* ConcParseResults with `results` shared by the threads
ConcParseResultsShared(p) ==
    /\ conc[p].pc = "parse"
    /\ conc' = [r \in Procs |->
                  [conc[r] EXCEPT !.results = Extract(conc[p].resp[1].text,
                                                      conc[p].max_results),
                                  !.pc = IF r = p THEN "envelope" ELSE @]]
    /\ UNCHANGED <<search_state, store>>

\* lines 108-125: parse resp.text and return the records
ConcParseResults(p) ==
    /\ conc[p].pc = "parse"
    /\ conc' = [conc EXCEPT ![p].results = Extract(conc[p].resp[1].text,
                                                   conc[p].max_results),
                            ![p].pc = "envelope"]
    /\ UNCHANGED <<search_state, store>>

\* lines 131-137: the envelope of search()
ConcSearchReturn(p) ==
    /\ conc[p].pc = "envelope"
    /\ conc' = [conc EXCEPT ![p].envelope = Envelope(conc[p].results, conc[p].q, env),
                            ![p].pc = "returned"]
    /\ UNCHANGED <<search_state, store>>

NextConcurrent ==
    \/ \E p \in Procs : ConcCallSearch(p)
    \/ \E p \in Procs : ConcFirstRequest(p)
    \/ \E p \in Procs : ConcFallbackRequest(p)
    \/ \E p \in Procs : ConcParseResults(p)
    \/ \E p \in Procs : ConcSearchReturn(p)

SpecConcurrent == InitConcurrent /\ [][NextConcurrent]_vars

(***************************************************************************)
(* Properties.                                                             *)
(***************************************************************************)
Failed(att) == att.exc # None
Direct(att) == att.proxies = None
FetchDone == pc \in {"parse", "envelope", "answer", "returned", "raised"}
TheError == error[1]

\* C1: a fetch issues at most two outbound requests.  A request without
\* proxy is made only after every proxy-routed request of the fetch, and only
\* when that one has failed; a fetch with use_proxy starts with the
\* proxy-routed request, so its request without proxy can only be the second.
\* No request follows a request without proxy: the fetch is then over (it
\* parses and returns, or it raises), whatever that request's outcome.
C1_AtMostTwoAttempts ==
    /\ Len(attempts) <= 2
    /\ \A i \in 1..Len(attempts) :
         Direct(attempts[i]) =>
            \A j \in 1..Len(attempts) :
               ~Direct(attempts[j]) => (j < i /\ Failed(attempts[j]))
    /\ (use_proxy /\ Len(attempts) >= 1) => ~Direct(attempts[1])
    /\ (\E i \in 1..Len(attempts) : Direct(attempts[i])) => FetchDone

\* C1 witness: a proxy-routed request failed, the direct one failed too, and
\* the fetch has raised after exactly two requests.
C1_Witness ==
    /\ pc = "raised"
    /\ Len(attempts) = 2
    /\ ~Direct(attempts[1]) /\ Failed(attempts[1])
    /\ Direct(attempts[2]) /\ Failed(attempts[2])

\* C2: with use_proxy, when the proxy-routed and the direct request both
\* fail, the error raised is a 502 whose detail is built from the direct
\* request's exception, and it is not the proxy request's message when the
\* two differ.
C2_DirectFailureDetail ==
    (use_proxy /\ Len(attempts) = 2 /\ Failed(attempts[1]) /\ Failed(attempts[2])) =>
        /\ pc = "raised"
        /\ error # None
        /\ TheError.status_code = 502
        /\ TheError.detail = <<"Search request failed: ", ExcStr(attempts[2])>>
        /\ ExcStr(attempts[1]) # ExcStr(attempts[2]) =>
              TheError.detail[2] # ExcStr(attempts[1])

\* C2 witness: the proxy could not be reached, the direct request got a 500,
\* and the 502 has been raised.
C2_Witness ==
    /\ pc = "raised" /\ use_proxy
    /\ Len(attempts) = 2
    /\ attempts[1].exc = Some("ProxyError")
    /\ attempts[2].exc = Some("HTTPError")
    /\ error # None

\* C3: with use_proxy, when the proxy-routed request fails (exception or 4xx/5xx
\* status) and the direct request succeeds, no error is raised and the
\* records returned are those parsed from the direct response's body.
C3_FallbackSuccess ==
    (use_proxy /\ Len(attempts) = 2 /\ ~Direct(attempts[1])
       /\ Failed(attempts[1]) /\ ~Failed(attempts[2])) =>
        /\ error = None
        /\ pc \in {"parse", "envelope", "answer", "returned"}
        /\ pc \in {"envelope", "answer", "returned"} =>
              results = Extract(attempts[2].response[1].text, max_results)

\* C3 witness: 500 with some markup through the proxy, 200 with other markup
\* directly, and the records of the direct body have been returned.
C3_Witness ==
    /\ pc = "returned" /\ use_proxy
    /\ Len(attempts) = 2
    /\ attempts[1].exc = Some("HTTPError")
    /\ attempts[1].response = Some(Response(500, <<GoodA>>))
    /\ attempts[2].exc = None
    /\ attempts[2].response = Some(Response(200, <<GoodB>>))
    /\ Len(results) = 1 /\ results[1].title = "B"
    /\ error = None

\* the document parsed and the candidates of it that yield a record
ParsedDoc == resp[1].text
IsValid(el) ==
    /\ el.cls = "result__body"
    /\ el.a # None
    /\ el.a[1].href \notin {None, Some("")}
RecordOf(el) == [title |-> el.a[1].text,
                 url |-> el.a[1].href[1],
                 snippet |-> IF el.snippet = None THEN "" ELSE el.snippet[1]]
ValidRecords(doc) == LET valid == SelectSeq(doc, IsValid)
                     IN  [i \in 1..Len(valid) |-> RecordOf(valid[i])]
ValidCount(doc) == Cardinality({i \in 1..Len(doc) : IsValid(doc[i])})
\* the number of valid candidates before position i
ValidBefore(doc, i) == Cardinality({j \in 1..(i - 1) : IsValid(doc[j])})
Returned == pc = "returned" /\ resp # None

\* C4 (as claimed): for every max_results n >= 0 the loop returns exactly
\* min(n, number of valid candidates) records, and never more than n.
C4_ExactCount ==
    Returned =>
        /\ Len(results) = Min(max_results, ValidCount(ParsedDoc))
        /\ Len(results) <= max_results

\* C4, for n >= 1 only: the same count, which the loop does deliver.
C4_ExactCountPositive ==
    (Returned /\ max_results >= 1) =>
        /\ Len(results) = Min(max_results, ValidCount(ParsedDoc))
        /\ Len(results) <= max_results

\* C5: a candidate without anchor or without link target is never in the
\* output, and it takes no slot: every valid candidate with fewer than
\* max_results valid candidates before it is in the output, at the position
\* given by the valid candidates before it, however many invalid ones precede.
C5_InvalidSkippedNotCounted ==
    Returned =>
        /\ \A k \in 1..Len(results) :
              \E i \in 1..Len(ParsedDoc) :
                 IsValid(ParsedDoc[i]) /\ results[k] = RecordOf(ParsedDoc[i])
        /\ \A i \in 1..Len(ParsedDoc) :
              (IsValid(ParsedDoc[i]) /\ ValidBefore(ParsedDoc, i) < max_results) =>
                 /\ Len(results) > ValidBefore(ParsedDoc, i)
                 /\ results[ValidBefore(ParsedDoc, i) + 1] = RecordOf(ParsedDoc[i])

\* C5 witness: two invalid candidates (no href, no anchor) come before a valid
\* one, the limit is 1, and the valid one has been returned.
C5_Witness ==
    /\ Returned
    /\ max_results = 1
    /\ ParsedDoc = <<NoHref, NoAnchor, GoodB, GoodA>>
    /\ results = <<RecordOf(GoodB)>>

\* C6 (as claimed): the output is the first min(n, number of valid
\* candidates) valid candidates, in document order.
C6_OrderedPrefix ==
    Returned =>
        results = SubSeq(ValidRecords(ParsedDoc), 1,
                         Min(max_results, ValidCount(ParsedDoc)))

\* C6, weaker: the output is some prefix of the valid candidates in document order.
C6_SomePrefix ==
    Returned =>
        /\ Len(results) <= ValidCount(ParsedDoc)
        /\ results = SubSeq(ValidRecords(ParsedDoc), 1, Len(results))

\* C7: in a search, the limit handed to the extraction is 1 for limit <= 0,
\* 20 for limit >= 21 and limit itself otherwise; the only error a search
\* raises is the 502 of two failed requests, whatever the limit.
C7_LimitClamped ==
    caller = "search" =>
        /\ max_results = (IF limit <= 0 THEN 1 ELSE IF limit >= 21 THEN 20 ELSE limit)
        /\ error # None =>
              /\ TheError.status_code = 502
              /\ Len(attempts) = 2
              /\ Failed(attempts[1]) /\ Failed(attempts[2])

\* C7 witness: a search with a negative limit has returned its envelope, with
\* the one record the clamped limit allows out of two.
C7_Witness ==
    /\ caller = "search" /\ pc = "returned"
    /\ limit < 0
    /\ ParsedDoc = <<GoodA, GoodB>>
    /\ envelope # None /\ envelope[1].count = 1
    /\ error = None

\* C8: in every envelope, count is the length of results, and that length is
\* between 0 and the clamped limit, so at most 20.
C8_CountIsLength ==
    envelope # None =>
        /\ envelope[1].count = Len(envelope[1].results)
        /\ 0 <= Len(envelope[1].results)
        /\ Len(envelope[1].results) <= max_results
        /\ Len(envelope[1].results) <= 20

\* C8 witness: limit above 20, a body with more than 20 well-formed result
\* nodes, and an envelope of 20 results.
C8_Witness ==
    /\ envelope # None
    /\ limit > 20
    /\ Len(ParsedDoc) > 20
    /\ envelope[1].count = 20 /\ Len(envelope[1].results) = 20

\* the URL pieces of a resolved endpoint
HasCredentials(url) == \E i \in 1..Len(url) : url[i] = "@"
NonEmpty(v) == v # None /\ v # Some("")

\* C9: the endpoint carries credentials iff the resolved user name and the
\* resolved password are both non-empty; then they are user:password@ in
\* front of the host, and otherwise the URL is scheme://host:port with no
\* piece of a credential in it.
C9_CredentialsIffBoth ==
    pc = "resolved" =>
        /\ proxies # None
        /\ proxies[1].http = proxies[1].https
        /\ LET url == proxies[1].http
               u == ProxyUsername(env)
               w == ProxyPassword(env)
           IN  /\ HasCredentials(url) <=> (NonEmpty(u) /\ NonEmpty(w))
               /\ HasCredentials(url) =>
                     /\ Len(url) = 9
                     /\ SubSeq(url, 3, 6) = <<u[1], ":", w[1], "@">>
               /\ ~HasCredentials(url) =>
                     /\ Len(url) = 5
                     /\ SubSeq(url, 2, 5) = <<"://", ProxyHost(env)[1], ":", ProxyPort(env)[1]>>

\* C9 witness: a user name is configured, the password is set but empty,
\* and the endpoint resolved has no credentials.
C9_Witness ==
    /\ pc = "resolved"
    /\ env["PROXY_USERNAME"] = Some("alice")
    /\ env["PROXY_PASSWORD"] = Some("") /\ env["WAVES_PROXY_PASS"] = None
    /\ proxies # None
    /\ ~HasCredentials(proxies[1].http)

\* C10: without use_proxy the fetch makes one request, without proxy; when it
\* fails the fetch raises the 502 at once and no second request is made.
C10_NoProxySingleAttempt ==
    (pc # "idle" /\ caller = "perform" /\ ~use_proxy) =>
        /\ Len(attempts) <= 1
        /\ pc # "fallback"
        /\ \A i \in 1..Len(attempts) : Direct(attempts[i])
        /\ (Len(attempts) = 1 /\ Failed(attempts[1])) =>
              /\ pc = "raised"
              /\ error = Some([status_code |-> 502, detail |-> <<"Search request failed">>])
        /\ (Len(attempts) = 1 /\ ~Failed(attempts[1])) => error = None

\* C10 witness: the single direct request timed out and the 502 is raised.
C10_Witness ==
    /\ caller = "perform" /\ ~use_proxy
    /\ pc = "raised"
    /\ attempts = <<[proxies |-> None, exc |-> Some("ConnectTimeout"), response |-> None]>>
    /\ error # None

\* C11: a search ends with a full envelope and no error, or with the error
\* of the fetch and no envelope.  It raises exactly when its last request
\* failed, with the 502 the fetch built and no records; when the fetch
\* succeeded the envelope (engine, proxy, query, count, results) is returned,
\* also with zero records.
C11_EnvelopeOrError ==
    caller = "search" =>
        /\ ~(envelope # None /\ error # None)
        /\ pc = "raised" =>
              /\ Len(attempts) = 2 /\ Failed(attempts[2])
              /\ error = Some([status_code |-> 502,
                               detail |-> <<"Search request failed: ", ExcStr(attempts[2])>>])
              /\ envelope = None
              /\ results = <<>>
        /\ pc = "envelope" => (error = None /\ ENABLED SearchReturn)
        /\ pc = "returned" =>
              /\ ~Failed(attempts[Len(attempts)])
              /\ error = None
              /\ envelope # None
              /\ DOMAIN envelope[1] = {"engine", "proxy", "query", "count", "results"}
              /\ envelope[1].engine = "Waves"
              /\ envelope[1].query = q
              /\ envelope[1].results = results

\* C11 witness: the body has no result node at all and the envelope is
\* returned with count 0 and no results.
C11_Witness ==
    /\ caller = "search" /\ pc = "returned"
    /\ ParsedDoc = <<Other>>
    /\ envelope # None
    /\ envelope[1].count = 0 /\ envelope[1].results = <<>>
    /\ error = None

\* C12: the proxy field of an envelope is the endpoint build_proxy_config
\* resolves from the configuration when the envelope is built, which is also
\* the one the fetch started with, whether the fetch ended on the
\* proxy-routed request or on the direct one.
C12_ProxyFieldIsResolved ==
    envelope # None =>
        /\ envelope[1].proxy = build_proxy_config(env)
        /\ envelope[1].proxy = proxies
        /\ envelope[1].proxy # None

\* C12 witness: the fetch fell back to the direct request and the envelope
\* still names the proxy endpoint.
C12_Witness ==
    /\ envelope # None
    /\ Len(attempts) = 2 /\ Direct(attempts[2]) /\ ~Failed(attempts[2])
    /\ envelope[1].proxy = Some([http |-> <<"http", "://", "93.127.130.22", ":", "8080">>,
                                 https |-> <<"http", "://", "93.127.130.22", ":", "8080">>])

\* C13: for every configuration state build_proxy_config returns an endpoint,
\* and its host and port are non-empty: the configured value of the first
\* non-empty key, or the default.
C13_EndpointAlwaysPresent ==
    pc = "resolved" =>
        /\ proxies # None
        /\ LET url == proxies[1].http
               host == url[Len(url) - 2]
               port == url[Len(url)]
           IN  /\ host # "" /\ port # ""
               /\ host = (IF NonEmpty(env["PROXY_HOST"]) THEN env["PROXY_HOST"][1]
                          ELSE IF NonEmpty(env["WAVES_PROXY_HOST"])
                               THEN env["WAVES_PROXY_HOST"][1]
                               ELSE "93.127.130.22")
               /\ port = (IF NonEmpty(env["PROXY_PORT"]) THEN env["PROXY_PORT"][1]
                          ELSE IF NonEmpty(env["WAVES_PROXY_PORT"])
                               THEN env["WAVES_PROXY_PORT"][1]
                               ELSE "8080")
               /\ url[Len(url) - 1] = ":"

\* C13 witness: the host key is set to the empty string, no port key is set,
\* and the endpoint resolved is the default one.
C13_Witness ==
    /\ pc = "resolved"
    /\ env["PROXY_HOST"] = Some("") /\ env["WAVES_PROXY_HOST"] = None
    /\ env["PROXY_PORT"] = None /\ env["WAVES_PROXY_PORT"] = None
    /\ env["PROXY_USERNAME"] = None /\ env["WAVES_PROXY_USER"] = None
    /\ proxies # None
    /\ SubSeq(proxies[1].http, 2, 5) = <<"://", "93.127.130.22", ":", "8080">>

\* C13, in a fetch: with use_proxy the first request goes through the
\* endpoint resolved from the configuration, never without proxy.
C13_FirstRequestRouted ==
    (use_proxy /\ Len(attempts) >= 1) =>
        /\ attempts[1].proxies # None
        /\ attempts[1].proxies = build_proxy_config(env)

\* C15 (as claimed): ai_ask fetches with limit 1 through the proxy path; with
\* no record the answer is the fixed phrase, and otherwise it is the top
\* record's snippet, or its title when the snippet is empty.
C15_SnippetOrTitle ==
    (caller = "ai_ask" /\ answer # None) =>
        /\ max_results = 1 /\ use_proxy
        /\ ~Direct(attempts[1])
        /\ results = <<>> =>
              answer[1] = [answer |-> "I couldn't find anything relevant right now."]
        /\ results # <<>> =>
              answer[1].answer = (IF results[1].snippet # "" THEN results[1].snippet
                                  ELSE results[1].title)

\* C15 (amended): as above, and when the snippet and the title of the top
\* record are both empty the answer is the phrase "I found a reference.".
C15_SnippetTitleOrPhrase ==
    (caller = "ai_ask" /\ answer # None) =>
        /\ max_results = 1 /\ use_proxy
        /\ ~Direct(attempts[1])
        /\ results = <<>> =>
              answer[1] = [answer |-> "I couldn't find anything relevant right now."]
        /\ results # <<>> =>
              /\ Len(results) = 1
              /\ answer[1].answer =
                    (IF results[1].snippet # "" THEN results[1].snippet
                     ELSE IF results[1].title # "" THEN results[1].title
                          ELSE "I found a reference.")
              /\ answer[1].source = results[1].url
              /\ answer[1].title = results[1].title

\* C15 witness: the top record has no snippet, and the answer is its title.
C15_Witness ==
    /\ caller = "ai_ask" /\ answer # None
    /\ ParsedDoc = <<NoHref, GoodB>>
    /\ results = <<RecordOf(GoodB)>>
    /\ answer[1].answer = "B"

(***************************************************************************)
(* Properties of the user collection.                                      *)
(***************************************************************************)
Ids == 1..Len(users)
TokensOf(doc) == {doc.tokens[k] : k \in 1..Len(doc.tokens)}
IssuedTo(token, id) == \E k \in 1..Len(issued) : issued[k] = [token |-> token, user |-> id]
\* the tokens a request can present
Presented == {TokenOfHeader(h) : h \in Headers \ {None}}
\* the document without its token list
Frame(doc) == [doc EXCEPT !.tokens = <<>>]

\* C16: no two documents of the collection have the same user name.
C16_UniqueUsernames ==
    \A i, j \in Ids : users[i].username = users[j].username => i = j

\* C16, the part that holds: a register answered 400 found its user name in
\* the collection and left the collection as it was.
C16_ExistingRejected ==
    [][\A p \in Procs :
         reply' = Reply(p, "register", 400, None) /\ req[p].pc = "idle" /\ req' = req
           => users' = users
    ]_vars

\* C17: a token that get_user_from_token finds in the collection was issued
\* by a completed login of the document it is found in and has not been
\* pulled by a logout since; the request a logout authenticated carries such
\* a token and that document; and the document a register inserts has an
\* empty token list, with no token issued to it.
C17_AuthenticatedOnlyIfIssued ==
    /\ [](\A t \in Presented :
            LET user == find_one_token(users, t)
            IN  user # None => IssuedTo(t, user[1]._id) /\ t \notin revoked)
    /\ [][\A p \in Procs :
            /\ req[p].pc = "idle" /\ req'[p].pc = "pull"
                 => /\ IssuedTo(req'[p].token, req'[p].user[1]._id)
                    /\ req'[p].token \notin revoked
                    /\ req'[p].user[1] = users[req'[p].user[1]._id]
            /\ req[p].pc = "insert" /\ req'[p].pc = "idle"
                 => /\ Len(users') = Len(users) + 1
                    /\ users'[Len(users')].tokens = <<>>
                    /\ \A t \in Presented : ~IssuedTo(t, Len(users'))
                    /\ \A t \in Presented :
                         LET user == find_one_token(users', t)
                         IN  user # None => user[1]._id # Len(users')
      ]_vars

\* a logout authenticated with an issued token while a register completed
\* after that token's login
C17_Witness ==
    /\ \E p \in Procs : req[p].pc = "pull" /\ req[p].token = <<"1">>
    /\ reply.op = "register" /\ reply.status = 200
    /\ Len(users) = 2 /\ users[2].tokens = <<>>

\* C18: the write of a logout removes the presented token from the list of
\* the authenticated document and changes nothing else: afterwards the token
\* is found in no document, every other token of that document is still in
\* its list, in the same order, and still resolves to it (also the tokens
\* pushed between the authentication and the write), every other field of the
\* document and every other document are as before.
C18_LogoutRemovesExactlyToken ==
    [][\A p \in Procs :
         req[p].pc = "pull" /\ req'[p].pc = "idle"
           => LET id == req[p].user[1]._id
                  token == req[p].token
                  Keep(t) == t # token
              IN  /\ find_one_token(users', token) = None
                  /\ Len(users') = Len(users)
                  /\ \A i \in Ids : i # id => users'[i] = users[i]
                  /\ Frame(users'[id]) = Frame(users[id])
                  /\ users'[id].tokens = SelectSeq(users[id].tokens, Keep)
                  /\ \A t \in TokensOf(users[id]) \ {token} :
                       /\ t \in TokensOf(users'[id])
                       /\ find_one_token(users', t) = Some(users'[id])
                  /\ reply' = Reply(p, "logout", 200, None)
    ]_vars

\* a logout with the first token is over, and the second token, issued to the
\* same user, is still in the list
C18_Witness ==
    /\ reply.op = "logout" /\ reply.status = 200
    /\ revoked = {<<"1">>}
    /\ Len(issued) = 2 /\ issued[1].user = issued[2].user
    /\ users[issued[2].user].tokens = << <<"2">> >>

\* C19: a login answered 401 issues no token and leaves the collection as it
\* was; a login goes on to issue a token only when the user name is in the
\* collection and the password verifies against the hash of the document
\* found; the write of a login appends one token, which no document held and
\* no login returned before, to the list of that document, returns it, and
\* changes nothing else.
C19_LoginFrame ==
    [][\A p \in Procs :
         /\ reply' # reply /\ reply'.proc = p /\ reply'.op = "login" /\ reply'.status = 401
              => /\ users' = users /\ issued' = issued
                 /\ reply'.token = None
                 /\ req'[p].pc = "idle"
         /\ req[p].pc = "idle" /\ req'[p].pc = "push"
              => LET found == find_one_username(users, req'[p].username)
                 IN  /\ found # None
                     /\ req'[p].user = found
                     /\ verify_password(req'[p].password, found[1].password_hash)
                     /\ users' = users /\ issued' = issued /\ reply' = reply
         /\ req[p].pc = "push" /\ req'[p].pc = "idle"
              => LET id == req[p].user[1]._id
                     token == reply'.token
                 IN  /\ reply' = Reply(p, "login", 200, token)
                     /\ token # None
                     /\ \A i \in Ids : token \notin TokensOf(users[i])
                     /\ \A k \in 1..Len(issued) : issued[k].token # token
                     /\ Len(users') = Len(users)
                     /\ \A i \in Ids : i # id => users'[i] = users[i]
                     /\ Frame(users'[id]) = Frame(users[id])
                     /\ users'[id].tokens = users[id].tokens \o <<token>>
    ]_vars

\* a login is answered 401 while a user holds the token of an earlier login
C19_Witness ==
    /\ reply.op = "login" /\ reply.status = 401
    /\ \E i \in Ids : users[i].tokens # <<>>

(***************************************************************************)
(* Properties of searches served at the same time.                         *)
(***************************************************************************)
\* what search(query, l) returns or raises when it runs alone under
\* configuration e and the provider answers its requests with `atts`
Alone(query, l, e, atts) ==
    LET last == atts[Len(atts)]
    IN  IF last.exc # None
        THEN [envelope |-> None,
              error |-> HTTPException(BadGateway,
                                      <<"Search request failed: ", ExcStr(last)>>)]
        ELSE [envelope |-> Envelope(Extract(last.response[1].text, Clamp(l)), query, e),
              error |-> None]

\* C14, the sequential side: the search of the one-request model ends with
\* the envelope or the error of Alone.
C14_AloneIsSequential ==
    caller = "search" /\ pc \in {"returned", "raised"}
      => [envelope |-> envelope, error |-> error] = Alone(q, limit, env, attempts)

\* C14: no step of a search writes the user collection or the configuration,
\* a step of one search leaves the locals of the other search as they were,
\* and every search that is over, whatever the interleaving, has the envelope
\* or the error it has when it runs alone with its query, limit,
\* configuration and provider responses.
C14_SearchesIndependent ==
    /\ [][/\ users' = users /\ issued' = issued /\ revoked' = revoked
          /\ env' = env
          /\ \A p, r \in Procs : p # r /\ conc'[p] # conc[p] => conc'[r] = conc[r]
       ]_vars
    /\ [](\A p \in Procs :
            conc[p].pc \in {"returned", "raised"}
              => [envelope |-> conc[p].envelope, error |-> conc[p].error]
                   = Alone(conc[p].q, conc[p].limit, env, conc[p].attempts))

\* one search has returned two records after a fallback while the other, with
\* another query and limit, has parsed one record and not yet returned
C14_Witness ==
    /\ conc["p1"].pc = "returned" /\ conc["p1"].envelope[1].count = 2
    /\ Len(conc["p1"].attempts) = 2
    /\ conc["p2"].pc = "envelope" /\ Len(conc["p2"].results) = 1
    /\ conc["p2"].q # conc["p1"].q
    /\ users # <<>>

====
